---- MODULE Spec2Model ----
(***************************************************************************)
(* Store-monitoring uptime/downtime engine (app/utils_time.py,             *)
(* app/report_logic.py, app/main.py).                                      *)
(*                                                                         *)
(* Time is an integer number of ticks since 00:00 UTC of a Monday (day 0). *)
(* One tick is the resolution of the model clock: there are TicksPerHour   *)
(* ticks in an hour.  Where the code writes the last instant of a day      *)
(* (23:59:59.999999) or one unit of clock resolution (1 microsecond), the  *)
(* model writes Day - Tick and Tick.                                       *)
(***************************************************************************)
EXTENDS Integers, Sequences, FiniteSets, TLC

VARIABLES
    \* Interval.intersect applied to a pair of intervals
    iv_pc, iv_a, iv_b, iv_ab, iv_ba,
    \* interpolate_segments / sum_overlap applied to a list of observations
    tl_pc, tl_points, tl_start, tl_end, tl_segs, tl_sum,
    \* local_business_intervals_utc / business_intervals_utc_for_range
    \* applied to one entity's timezone row, business-hours rows and window
    bz_pc, bz_tz, bz_rows, bz_start, bz_end, bz_parts, bz_out,
    \* the database tables (store_status, business_hours, store_timezone,
    \* each a sequence of rows in insertion order) and the wall clock
    db_status, db_hours, db_tz, clock,
    \* compute_store_metrics applied to one store of the database
    mt_pc, mt_store, mt_secs, mt_result,
    \* the reports table, the files under REPORT_DIR, each trigger_report
    \* request's position, loop index and collected rows, and the last
    \* answer of get_report / download_report
    reports, files, rq_pc, rq_idx, rq_rows, resp

iv_vars == <<iv_pc, iv_a, iv_b, iv_ab, iv_ba>>
tl_vars == <<tl_pc, tl_points, tl_start, tl_end, tl_segs, tl_sum>>
bz_vars == <<bz_pc, bz_tz, bz_rows, bz_start, bz_end, bz_parts, bz_out>>
db_vars == <<db_status, db_hours, db_tz, clock>>
mt_vars == <<mt_pc, mt_store, mt_secs, mt_result>>
rp_vars == <<reports, files, rq_pc, rq_idx, rq_rows, resp>>
vars == <<iv_vars, tl_vars, bz_vars, db_vars, mt_vars, rp_vars>>

\* What a component's actions leave alone.
not_iv == <<tl_vars, bz_vars, db_vars, mt_vars, rp_vars>>
not_tl == <<iv_vars, bz_vars, db_vars, mt_vars, rp_vars>>
not_bz == <<iv_vars, tl_vars, db_vars, mt_vars, rp_vars>>
not_mt == <<iv_vars, tl_vars, bz_vars, rp_vars>>
not_rp == <<iv_vars, tl_vars, bz_vars, db_vars, mt_vars>>

---------------------------------------------------------------------------
(* Clock *)

TicksPerHour == 2
Tick == 1
Hour == TicksPerHour * Tick
Day == 24 * Hour
Week == 7 * Day
SecondsPerTick == 3600 \div TicksPerHour

Min2(x, y) == IF x <= y THEN x ELSE y
Max2(x, y) == IF x >= y THEN x ELSE y
MaxOf(S) == CHOOSE x \in S : \A y \in S : y <= x

---------------------------------------------------------------------------
(* utils_time.Interval *)

\* Interval(start, end): start inclusive, end exclusive; the dataclass does
\* not validate start <= end.
Interval(s, e) == [start |-> s, end |-> e]

\* Python's None, distinct from every Interval value.
None == [none |-> TRUE]

\* Interval.duration_seconds
DurationSeconds(iv) == Max2(0, (iv.end - iv.start) * SecondsPerTick)

\* A slip in the emptiness test: s > e instead of s >= e.
IntersectTouching(a, b) ==
    LET s == Max2(a.start, b.start)
        e == Min2(a.end, b.end)
    IN  IF s > e THEN None ELSE Interval(s, e)

\* Interval.intersect
Intersect(a, b) ==
    LET s == Max2(a.start, b.start)
        e == Min2(a.end, b.end)
    IN  IF s >= e THEN None ELSE Interval(s, e)

---------------------------------------------------------------------------
(* report_logic.interpolate_segments *)

\* An observation as fetch_status_points delivers it.
Point(ts, st) == [ts |-> ts, st |-> st]

\* The first loop: the last point of the leading run with ts <= start
\* (<<>> when there is none, <<p>> otherwise).
RECURSIVE PriorScan(_, _, _, _)
PriorScan(points, start, i, prior) ==
    IF i > Len(points) THEN prior
    ELSE IF points[i].ts <= start
         THEN PriorScan(points, start, i + 1, <<points[i]>>)
         ELSE prior

\* next((p for p in points if p[0] >= start), None)
FirstFuture(points, start) ==
    LET idx == {i \in 1..Len(points) : points[i].ts >= start}
    IN  IF idx = {} THEN <<>>
        ELSE <<points[CHOOSE i \in idx : \A j \in idx : i <= j]>>

\* A slip in the fallback: the default state when nothing is known is
\* "active" and the prior observation is the first, not the last, at or
\* before start.
BaseStatusFirst(points, start) ==
    LET idx == {i \in 1..Len(points) : points[i].ts <= start}
    IN  IF idx = {} THEN
            (IF FirstFuture(points, start) # <<>>
             THEN FirstFuture(points, start)[1].st ELSE "active")
        ELSE points[CHOOSE i \in idx : \A j \in idx : i <= j].st

BaseStatus(points, start) ==
    LET prior == PriorScan(points, start, 1, <<>>)
        future == FirstFuture(points, start)
    IN  IF prior = <<>>
        THEN (IF future # <<>> THEN future[1].st ELSE "inactive")
        ELSE prior[1].st

Seg(iv, st) == [iv |-> iv, st |-> st]

\* The second loop and the closing segment.
RECURSIVE SegWalk(_, _, _, _, _, _, _)
SegWalk(points, start, end, i, segs, cur_t, cur_status) ==
    LET close == IF cur_t < end
                 THEN Append(segs, Seg(Interval(cur_t, end), cur_status))
                 ELSE segs
    IN  IF i > Len(points) THEN close
        ELSE LET ts == points[i].ts
                 st == points[i].st
             IN  IF ts <= start
                 THEN SegWalk(points, start, end, i + 1, segs, cur_t, cur_status)
                 ELSE IF ts >= end THEN close
                 ELSE IF ts > cur_t
                 THEN SegWalk(points, start, end, i + 1,
                              Append(segs, Seg(Interval(cur_t, ts), cur_status)),
                              ts, st)
                 ELSE SegWalk(points, start, end, i + 1, segs, cur_t, st)

\* A slip in the walk: a point is always taken to close the open segment,
\* also when it shares its timestamp with the previous one.
RECURSIVE SegWalkZero(_, _, _, _, _, _, _)
SegWalkZero(points, start, end, i, segs, cur_t, cur_status) ==
    LET close == IF cur_t < end
                 THEN Append(segs, Seg(Interval(cur_t, end), cur_status))
                 ELSE segs
    IN  IF i > Len(points) THEN close
        ELSE LET ts == points[i].ts
                 st == points[i].st
             IN  IF ts <= start
                 THEN SegWalkZero(points, start, end, i + 1, segs, cur_t, cur_status)
                 ELSE IF ts >= end THEN close
                 ELSE SegWalkZero(points, start, end, i + 1,
                              Append(segs, Seg(Interval(cur_t, ts), cur_status)),
                              ts, st)

InterpolateSegmentsZero(points, start, end) ==
    IF start >= end THEN <<>>
    ELSE SegWalkZero(points, start, end, 1, <<>>, start, BaseStatus(points, start))

InterpolateSegments(points, start, end) ==
    IF start >= end THEN <<>>
    ELSE SegWalk(points, start, end, 1, <<>>, start, BaseStatus(points, start))

---------------------------------------------------------------------------
(* report_logic.sum_overlap *)

\* The inner loop over the segments, for one business interval b.
RECURSIVE SumSegs(_, _, _, _)
SumSegs(segs, b, j, acc) ==
    IF j > Len(segs) THEN acc
    ELSE LET inter == Intersect(segs[j].iv, b)
         IN  IF inter = None THEN SumSegs(segs, b, j + 1, acc)
             ELSE LET dur == DurationSeconds(inter)
                  IN  IF segs[j].st = "active"
                      THEN SumSegs(segs, b, j + 1, [acc EXCEPT !.up = @ + dur])
                      ELSE SumSegs(segs, b, j + 1, [acc EXCEPT !.down = @ + dur])

\* The outer loop over the business intervals.
RECURSIVE SumBiz(_, _, _, _)
SumBiz(segs, biz, i, acc) ==
    IF i > Len(biz) THEN acc
    ELSE SumBiz(segs, biz, i + 1, SumSegs(segs, biz[i], 1, acc))

SumOverlap(segs, biz_intervals) ==
    SumBiz(segs, biz_intervals, 1, [up |-> 0, down |-> 0])

---------------------------------------------------------------------------
(* The zone database (pytz) *)

DEFAULT_TZ == "America/Chicago"

\* The zones of the model's database: one with daylight saving time and
\* one with a fixed offset that is not a whole number of hours.
KnownZones == {"America/Chicago", "Asia/Kolkata"}

ChicagoStd == 0 - 6 * Hour
ChicagoDst == 0 - 5 * Hour
KolkataOffset == 5 * Hour + Hour \div 2

\* Daylight saving time in America/Chicago starts at 02:00 standard time
\* on the Sunday SpringDay and ends at 02:00 daylight time on the Sunday
\* FallDay (day 0 is a Monday).
SpringDay == 2 * 7 - 1
FallDay == 4 * 7 - 1
SpringUtc == SpringDay * Day + 2 * Hour - ChicagoStd
FallUtc == FallDay * Day + 2 * Hour - ChicagoDst

ZoneOffsets(tz) ==
    IF tz = "America/Chicago" THEN {ChicagoStd, ChicagoDst} ELSE {KolkataOffset}

StdOffset(tz) ==
    IF tz = "America/Chicago" THEN ChicagoStd ELSE KolkataOffset

\* The UTC offset in force at the UTC instant u.
UtcOffset(tz, u) ==
    IF tz = "America/Chicago"
    THEN (IF SpringUtc <= u /\ u < FallUtc THEN ChicagoDst ELSE ChicagoStd)
    ELSE KolkataOffset

\* utc.astimezone(tz): the local wall clock, in ticks since day 0 00:00.
ToLocal(tz, u) == u + UtcOffset(tz, u)

\* utc.astimezone(tz).date()
LocalDate(tz, u) == ToLocal(tz, u) \div Day

\* date.weekday(): 0 = Monday
Weekday(d) == d % 7

\* tz.localize(naive), is_dst=False: the UTC instant of wall clock w. The
\* one offset under which w exists is used; a wall clock that exists twice
\* (end of DST) or never (start of DST) gets the standard offset. The
\* datetime keeps that fixed offset afterwards, so adding a timedelta to
\* it adds the same amount to its UTC instant.
Localize(tz, w) ==
    LET fits == {off \in ZoneOffsets(tz) : UtcOffset(tz, w - off) = off}
    IN  IF Cardinality(fits) = 1
        THEN w - (CHOOSE off \in fits : TRUE)
        ELSE w - StdOffset(tz)

\* pytz.timezone(name) raises UnknownTimeZoneError for a name it lacks.
ZoneKnown(name) == name \in KnownZones

---------------------------------------------------------------------------
(* report_logic: the entity's timezone and business hours *)

\* A business_hours row: day_of_week and the two "HH:MM:SS" strings, each
\* held as the integers between its colons.
Row(dow, s, e) == [dow |-> dow, start_time_local |-> s, end_time_local |-> e]

\* A rule as get_business_hours returns it: times of day in ticks.
Rule(dow, s, e) == [dow |-> dow, start_t |-> s, end_t |-> e]

\* _parse_hhmmss raises (IndexError, or ValueError from dt.time) on a
\* string with fewer than two fields or a field out of range.
ParseRaises(parts) ==
    \/ Len(parts) < 2
    \/ parts[1] \notin 0..23
    \/ parts[2] \notin 0..59
    \/ (Len(parts) > 2 /\ parts[3] \notin 0..59)

\* _parse_hhmmss: dt.time(h, m, s if given else 0), as a time of day in
\* ticks (exact for the times on the tick grid).
ParseHHMMSS(parts) ==
    parts[1] * Hour + (parts[2] * Hour) \div 60
        + (IF Len(parts) > 2 THEN (parts[3] * Hour) \div 3600 ELSE 0)

\* get_store_timezone: the name pytz is asked for ("" is no row).
TimezoneName(tzrow) == IF tzrow = "" THEN DEFAULT_TZ ELSE tzrow

\* get_business_hours: no row means open around the clock, written as
\* seven rules 00:00-00:00.
GetBusinessHours(rows) ==
    IF rows = <<>>
    THEN [i \in 1..7 |-> Rule(i - 1, 0, 0)]
    ELSE [i \in 1..Len(rows) |->
             Rule(rows[i].dow, ParseHHMMSS(rows[i].start_time_local),
                  ParseHHMMSS(rows[i].end_time_local))]

---------------------------------------------------------------------------
(* utils_time.local_business_intervals_utc *)

\* The parts of one rule on calendar date day.
RuleParts(day, r, tz) ==
    LET start_local == Localize(tz, day * Day + r.start_t)
        end_local == Localize(tz, day * Day + r.end_t)
    IN  IF r.end_t <= r.start_t
        THEN LET end_of_day_local == Localize(tz, day * Day + (Day - Tick))
                 start_of_next_local == Localize(tz, (day + 1) * Day)
             IN  << Interval(start_local, end_of_day_local + Tick),
                    Interval(start_of_next_local, end_local + Day) >>
        ELSE << Interval(start_local, end_local) >>

RECURSIVE LocalWalk(_, _, _, _, _)
LocalWalk(day, rules, tz, i, out) ==
    IF i > Len(rules) THEN out
    ELSE IF Weekday(day) # rules[i].dow
         THEN LocalWalk(day, rules, tz, i + 1, out)
         ELSE LocalWalk(day, rules, tz, i + 1, out \o RuleParts(day, rules[i], tz))

LocalBusinessIntervalsUtc(day, rules, tz) == LocalWalk(day, rules, tz, 1, <<>>)

---------------------------------------------------------------------------
(* report_logic.business_intervals_utc_for_range *)

\* The while loop over the local dates.
RECURSIVE DatesWalk(_, _, _, _, _)
DatesWalk(cur_local_date, end_local_date, rules, tz, out) ==
    IF cur_local_date > end_local_date THEN out
    ELSE DatesWalk(cur_local_date + 1, end_local_date, rules, tz,
                   out \o LocalBusinessIntervalsUtc(cur_local_date, rules, tz))

\* The filter loop: each interval cut to the window, empty ones dropped.
RECURSIVE FilterWalk(_, _, _, _)
FilterWalk(out, window, i, filtered) ==
    IF i > Len(out) THEN filtered
    ELSE LET inter == Intersect(out[i], window)
         IN  IF inter # None
             THEN FilterWalk(out, window, i + 1, Append(filtered, inter))
             ELSE FilterWalk(out, window, i + 1, filtered)

\* The last instant before end is end - 1 second in the code; on the tick
\* grid it has the local date of end - Tick.
BusinessIntervalsUtcForRange(tzrow, rows, start, end) ==
    LET tz == TimezoneName(tzrow)
        rules == GetBusinessHours(rows)
        cur_local_date == LocalDate(tz, start)
        end_local_date == LocalDate(tz, end - Tick)
        out == DatesWalk(cur_local_date, end_local_date, rules, tz, <<>>)
    IN  FilterWalk(out, Interval(start, end), 1, <<>>)

---------------------------------------------------------------------------
(* report_logic: queries *)

StatusRow(sid, ts, st) == [store_id |-> sid, timestamp_utc |-> ts, status |-> st]
HoursRow(sid, row) ==
    [store_id |-> sid, dow |-> row.dow,
     start_time_local |-> row.start_time_local,
     end_time_local |-> row.end_time_local]
TzRow(sid, name) == [store_id |-> sid, timezone_str |-> name]

RowsOf(table, sid) == SelectSeq(table, LAMBDA r : r.store_id = sid)

\* get_now: the latest observation of any store, or the wall clock when
\* the table is empty.
GetNow(status, wall) ==
    IF status = <<>> THEN wall
    ELSE MaxOf({status[i].timestamp_utc : i \in 1..Len(status)})

\* The timezone_str of the store's row, "" without one.
TimezoneRowOf(tzs, sid) ==
    LET rows == RowsOf(tzs, sid)
    IN  IF rows = <<>> THEN "" ELSE rows[1].timezone_str

\* ORDER BY timestamp_utc ASC: rows with equal timestamps stay in
\* insertion order.
RECURSIVE InsertByTs(_, _)
InsertByTs(sorted, p) ==
    IF sorted = <<>> THEN <<p>>
    ELSE IF sorted[Len(sorted)].ts <= p.ts THEN Append(sorted, p)
    ELSE Append(InsertByTs(SubSeq(sorted, 1, Len(sorted) - 1), p),
                sorted[Len(sorted)])

RECURSIVE SortByTs(_, _, _)
SortByTs(rows, i, sorted) ==
    IF i > Len(rows) THEN sorted
    ELSE SortByTs(rows, i + 1,
                  InsertByTs(sorted, Point(rows[i].timestamp_utc, rows[i].status)))

\* fetch_status_points: start is not used by the query.
FetchStatusPoints(status, sid, start, end) ==
    SortByTs(SelectSeq(RowsOf(status, sid), LAMBDA r : r.timestamp_utc <= end),
             1, <<>>)

\* window_ranges
WindowRanges(now) ==
    [last_hour |-> Interval(now - Hour, now),
     last_day |-> Interval(now - Day, now),
     last_week |-> Interval(now - Week, now)]

---------------------------------------------------------------------------
(* report_logic.compute_store_metrics *)

\* round(num / den, 2), in hundredths (ties to even).
Round2(num, den) ==
    LET q == (100 * num) \div den
        r == (100 * num) % den
    IN  IF 2 * r > den \/ (2 * r = den /\ q % 2 = 1) THEN q + 1 ELSE q

\* get_store_timezone or get_business_hours raises for this store.
ComputeRaises(hours, tzs, sid) ==
    \/ ~ZoneKnown(TimezoneName(TimezoneRowOf(tzs, sid)))
    \/ \E i \in 1..Len(hours) :
           /\ hours[i].store_id = sid
           /\ (ParseRaises(hours[i].start_time_local)
                  \/ ParseRaises(hours[i].end_time_local))

\* One iteration of the loop over the windows: up_s, down_s of window key.
WindowSeconds(status, hours, tzs, wall, sid, key) ==
    LET now == GetNow(status, wall)
        windows == WindowRanges(now)
        points == FetchStatusPoints(status, sid, windows.last_week.start, now)
        ws == windows[key].start
        we == windows[key].end
        segs == InterpolateSegments(points, ws, we)
        biz == BusinessIntervalsUtcForRange(TimezoneRowOf(tzs, sid),
                                            RowsOf(hours, sid), ws, we)
    IN  SumOverlap(segs, biz)

\* The up_s, down_s of the three windows.
AllWindowSeconds(status, hours, tzs, wall, sid) ==
    [key \in {"last_hour", "last_day", "last_week"} |->
        WindowSeconds(status, hours, tzs, wall, sid, key)]

\* The metrics record, its six numbers in hundredths.
ComputeStoreMetrics(status, hours, tzs, wall, sid) ==
    LET secs == AllWindowSeconds(status, hours, tzs, wall, sid)
    IN  [store_id |-> sid,
         uptime_last_hour_minutes |-> Round2(secs.last_hour.up, 60),
         downtime_last_hour_minutes |-> Round2(secs.last_hour.down, 60),
         uptime_last_day_hours |-> Round2(secs.last_day.up, 3600),
         downtime_last_day_hours |-> Round2(secs.last_day.down, 3600),
         uptime_last_week_hours |-> Round2(secs.last_week.up, 3600),
         downtime_last_week_hours |-> Round2(secs.last_week.down, 3600)]

---------------------------------------------------------------------------
(* Interval.intersect on arbitrary pairs *)

MaxInstant == 3

Instants == 0..MaxInstant

IntervalInputs == {Interval(s, e) : s \in Instants, e \in Instants}

iv_Idle ==
    /\ iv_pc = "idle"
    /\ iv_a = Interval(0, 0)
    /\ iv_b = Interval(0, 0)
    /\ iv_ab = None
    /\ iv_ba = None

tl_Idle ==
    /\ tl_pc = "idle"
    /\ tl_points = <<>>
    /\ tl_start = 0
    /\ tl_end = 0
    /\ tl_segs = <<>>
    /\ tl_sum = [up |-> 0, down |-> 0]

bz_Idle ==
    /\ bz_pc = "idle"
    /\ bz_tz = ""
    /\ bz_rows = <<>>
    /\ bz_start = 0
    /\ bz_end = 0
    /\ bz_parts = <<>>
    /\ bz_out = <<>>

db_Idle ==
    /\ db_status = <<>>
    /\ db_hours = <<>>
    /\ db_tz = <<>>
    /\ clock = 0

mt_Idle ==
    /\ mt_pc = "idle"
    /\ mt_store = ""
    /\ mt_secs = None
    /\ mt_result = None

rp_Idle ==
    /\ reports = <<>>
    /\ files = <<>>
    /\ rq_pc = <<>>
    /\ rq_idx = <<>>
    /\ rq_rows = <<>>
    /\ resp = None

InitIntersect ==
    /\ iv_pc = "call"
    /\ iv_a \in IntervalInputs
    /\ iv_b \in IntervalInputs
    /\ iv_ab = None
    /\ iv_ba = None
    /\ tl_Idle /\ bz_Idle /\ db_Idle /\ mt_Idle /\ rp_Idle

\* a.intersect(b) and b.intersect(a)
DoIntersect ==
    /\ iv_pc = "call"
    /\ iv_ab' = Intersect(iv_a, iv_b)
    /\ iv_ba' = Intersect(iv_b, iv_a)
    /\ iv_pc' = "done"
    /\ UNCHANGED <<iv_a, iv_b, not_iv>>

NextIntersect == DoIntersect

SpecIntersect == InitIntersect /\ [][NextIntersect]_vars

\* C9: intersect is commutative; it returns None exactly when
\* max(a.start, b.start) >= min(a.end, b.end) (so intervals that only touch
\* have no overlap), and otherwise the interval between the two, which has
\* start < end.
IntersectCommutativeHalfOpen ==
    iv_pc = "done" =>
        /\ iv_ab = iv_ba
        /\ (iv_ab = None) <=>
               (Max2(iv_a.start, iv_b.start) >= Min2(iv_a.end, iv_b.end))
        /\ iv_ab # None =>
               /\ iv_ab.start < iv_ab.end
               /\ iv_ab.start = Max2(iv_a.start, iv_b.start)
               /\ iv_ab.end = Min2(iv_a.end, iv_b.end)

\* Two proper intervals that only touch at an endpoint were intersected,
\* in the order that is not the trivial one, and gave None.
IntersectTouchingReached ==
    /\ iv_pc = "done"
    /\ iv_a.start < iv_a.end
    /\ iv_b.start < iv_b.end
    /\ iv_a.end = iv_b.start
    /\ iv_ab = None
    /\ iv_ba = None

---------------------------------------------------------------------------
(* interpolate_segments on arbitrary ascending observation lists *)

MaxPoints == 3

Statuses == {"active", "inactive"}

PointInputs == {Point(ts, st) : ts \in Instants, st \in Statuses}

\* ORDER BY timestamp_utc ASC: ascending, ties in delivery order.
Ascending(points) ==
    \A i \in 1..(Len(points) - 1) : points[i].ts <= points[i + 1].ts

PointLists ==
    {ps \in UNION {[1..n -> PointInputs] : n \in 0..MaxPoints} : Ascending(ps)}

InitInterp ==
    /\ tl_pc = "call"
    /\ tl_points \in PointLists
    /\ tl_start \in Instants
    /\ tl_end \in Instants
    /\ tl_segs = <<>>
    /\ tl_sum = [up |-> 0, down |-> 0]
    /\ iv_Idle /\ bz_Idle /\ db_Idle /\ mt_Idle /\ rp_Idle

\* segs = interpolate_segments(points, ws, we)
DoInterpolate ==
    /\ tl_pc = "call"
    /\ tl_segs' = InterpolateSegments(tl_points, tl_start, tl_end)
    /\ tl_pc' = "segmented"
    /\ UNCHANGED <<tl_points, tl_start, tl_end, tl_sum, not_tl>>

\* up_s, down_s = sum_overlap(segs, biz), with one business interval that
\* is the whole window.
DoSumWindow ==
    /\ tl_pc = "segmented"
    /\ tl_sum' = SumOverlap(tl_segs, <<Interval(tl_start, tl_end)>>)
    /\ tl_pc' = "summed"
    /\ UNCHANGED <<tl_points, tl_start, tl_end, tl_segs, not_tl>>

NextInterp == DoInterpolate \/ DoSumWindow

SpecInterp == InitInterp /\ [][NextInterp]_vars

tl_Done == tl_pc \in {"segmented", "summed"} /\ tl_start < tl_end

\* C1: for start < end the segments cover exactly [start, end): the first
\* starts at start, the last ends at end, each ends where the next starts,
\* and every segment has strictly positive length.
SegmentsPartitionWindow ==
    tl_Done =>
        /\ Len(tl_segs) >= 1
        /\ tl_segs[1].iv.start = tl_start
        /\ tl_segs[Len(tl_segs)].iv.end = tl_end
        /\ \A i \in 1..Len(tl_segs) : tl_segs[i].iv.start < tl_segs[i].iv.end
        /\ \A i \in 1..(Len(tl_segs) - 1) :
               tl_segs[i].iv.end = tl_segs[i + 1].iv.start

\* Observations sharing a timestamp inside the window, and one lying
\* exactly on start, have been interpolated into several segments.
SegmentsTiesReached ==
    /\ tl_Done
    /\ Len(tl_segs) >= 2
    /\ \E i \in 1..Len(tl_points) : tl_points[i].ts = tl_start
    /\ \E i \in 1..(Len(tl_points) - 1) :
           /\ tl_points[i].ts = tl_points[i + 1].ts
           /\ tl_points[i].ts > tl_start
           /\ tl_points[i].ts < tl_end
           /\ tl_points[i].st # tl_points[i + 1].st

\* The state of the segment that contains instant t.
StateAt(segs, t) ==
    LET i == CHOOSE k \in 1..Len(segs) :
                 segs[k].iv.start <= t /\ t < segs[k].iv.end
    IN  segs[i].st

\* C2: the state at start is that of the latest observation at or before
\* start (the last delivered among equals); without one, that of the
\* earliest observation after start; without any observation, "inactive".
\* After that the state is the last observation carried forward. One
\* observation half an hour before the end of a one-hour window, active,
\* with an inactive prior, gives 30 minutes up and 30 minutes down.
BaseStateAndCarryForward ==
    tl_Done =>
        LET atOrBefore == {i \in 1..Len(tl_points) : tl_points[i].ts <= tl_start}
        IN  /\ Len(tl_segs) >= 1
            /\ tl_segs[1].iv.start = tl_start
            /\ tl_segs[1].st =
                   IF atOrBefore # {} THEN tl_points[MaxOf(atOrBefore)].st
                   ELSE IF tl_points # <<>> THEN tl_points[1].st
                   ELSE "inactive"
            /\ \A t \in tl_start..(tl_end - 1) :
                   LET seen == {i \in 1..Len(tl_points) :
                                    tl_start < tl_points[i].ts /\ tl_points[i].ts <= t}
                   IN  seen # {} =>
                           /\ \E k \in 1..Len(tl_segs) :
                                  tl_segs[k].iv.start <= t /\ t < tl_segs[k].iv.end
                           /\ StateAt(tl_segs, t) = tl_points[MaxOf(seen)].st
            /\ ( /\ tl_pc = "summed"
                 /\ tl_end - tl_start = Hour
                 /\ Len(tl_points) = 2
                 /\ tl_points[1].ts <= tl_start
                 /\ tl_points[1].st = "inactive"
                 /\ tl_points[2] = Point(tl_end - Hour \div 2, "active") )
               => tl_sum = [up |-> 30 * 60, down |-> 30 * 60]

\* A window whose start state comes from the last of two observations
\* that share a timestamp at or before start and disagree, and that has a
\* later observation inside it.
BaseStateTieReached ==
    /\ tl_Done
    /\ Len(tl_segs) >= 2
    /\ \E i \in 1..(Len(tl_points) - 1) :
           /\ tl_points[i].ts = tl_points[i + 1].ts
           /\ tl_points[i + 1].ts <= tl_start
           /\ tl_points[i].st # tl_points[i + 1].st
           /\ tl_segs[1].st = tl_points[i + 1].st

---------------------------------------------------------------------------
(* The calendar resolver on one entity's rows and one window *)

MaxRules == 2

\* Sundays and Mondays around the start of DST, in plain summer and around
\* the end of DST.
BizDays == {SpringDay, SpringDay + 1, SpringDay + 8, FallDay, FallDay + 1}

\* Hours of the UTC day at which a window starts.
BizHours == {0, 5, 6, 19}

TzRows == {"", "America/Chicago", "Asia/Kolkata"}

RowInputs ==
    {Row(dow, st, en) :
        dow \in {6, 0},
        st \in {<<0, 0, 0>>, <<9, 0>>, <<22, 0, 0>>},
        en \in {<<0, 0, 0>>, <<2, 0, 0>>, <<17, 30>>}}

RowLists == UNION {[1..n -> RowInputs] : n \in 0..MaxRules}

\* The entity's rows and the window, drawn from the given sets.
BizInputs(tzrows, rowlists) ==
    /\ bz_pc = "call"
    /\ bz_tz \in tzrows
    /\ bz_rows \in rowlists
    /\ \E d \in BizDays, h \in BizHours, len \in {Hour, Day} :
           /\ bz_start = d * Day + h * Hour
           /\ bz_end = bz_start + len
    /\ bz_parts = <<>>
    /\ bz_out = <<>>
    /\ iv_Idle /\ tl_Idle /\ db_Idle /\ mt_Idle /\ rp_Idle

InitBiz == BizInputs(TzRows, RowLists)

\* Entities in a zone whose UTC offset never changes.
InitBizFixed == BizInputs({"Asia/Kolkata"}, RowLists)

\* Entities without business-hours rows (open around the clock).
InitBizNoRows == BizInputs(TzRows, {<<>>})

\* local_business_intervals_utc(cur_local_date, rules, tz) for the first
\* local date of the window.
DoResolveDay ==
    /\ bz_pc = "call"
    /\ bz_parts' = LocalBusinessIntervalsUtc(
                       LocalDate(TimezoneName(bz_tz), bz_start),
                       GetBusinessHours(bz_rows), TimezoneName(bz_tz))
    /\ bz_pc' = "day"
    /\ UNCHANGED <<bz_tz, bz_rows, bz_start, bz_end, bz_out, not_bz>>

\* biz = business_intervals_utc_for_range(store_id, sess, ws, we)
DoResolveRange ==
    /\ bz_pc = "day"
    /\ bz_out' = BusinessIntervalsUtcForRange(bz_tz, bz_rows, bz_start, bz_end)
    /\ bz_pc' = "range"
    /\ UNCHANGED <<bz_tz, bz_rows, bz_start, bz_end, bz_parts, not_bz>>

NextBiz == DoResolveDay \/ DoResolveRange

SpecBiz == InitBiz /\ [][NextBiz]_vars

SpecBizFixed == InitBizFixed /\ [][NextBiz]_vars

SpecBizNoRows == InitBizNoRows /\ [][NextBiz]_vars

\* Whether the entity is open at the UTC instant u under its weekly rules:
\* some rule covers the local wall clock of u, a rule with end <= start
\* covering its own date from start on and the next date up to end.
OpenAt(tz, rules, u) ==
    LET w == ToLocal(tz, u)
        d == w \div Day
        tod == w % Day
    IN  \E i \in 1..Len(rules) :
            LET r == rules[i]
            IN  IF r.end_t > r.start_t
                THEN Weekday(d) = r.dow /\ r.start_t <= tod /\ tod < r.end_t
                ELSE \/ (Weekday(d) = r.dow /\ tod >= r.start_t)
                     \/ (Weekday(d - 1) = r.dow /\ tod < r.end_t)

Covers(iv, t) == iv.start <= t /\ t < iv.end

\* C4: the returned intervals are exactly the entity's open time inside the
\* window: each lies inside the window and inside open time, and every
\* open instant of the window is inside one of them, the after-midnight
\* part of a rule of the date before the window's first local date
\* included.
BizIntervalsAreOpenTimeInWindow ==
    bz_pc = "range" =>
        LET tz == TimezoneName(bz_tz)
            rules == GetBusinessHours(bz_rows)
        IN  /\ \A k \in 1..Len(bz_out) :
                   /\ bz_start <= bz_out[k].start
                   /\ bz_out[k].start < bz_out[k].end
                   /\ bz_out[k].end <= bz_end
                   /\ \A t \in bz_out[k].start..(bz_out[k].end - 1) :
                          OpenAt(tz, rules, t)
            /\ \A t \in bz_start..(bz_end - 1) :
                   OpenAt(tz, rules, t) =>
                       \E k \in 1..Len(bz_out) : Covers(bz_out[k], t)

\* C8: on a date d of its weekday, a rule with local_end <= local_start
\* gives [local_start on d, midnight of d+1) followed by [midnight of d+1,
\* local_end on d+1); the two meet at the date boundary and together last
\* 24h - local_start + local_end.
MidnightRuleSplitsAtDateBoundary ==
    bz_pc \in {"day", "range"} =>
        LET tz == TimezoneName(bz_tz)
            rules == GetBusinessHours(bz_rows)
            d == LocalDate(tz, bz_start)
        IN  \A i \in 1..Len(rules) :
                (rules[i].dow = Weekday(d) /\ rules[i].end_t <= rules[i].start_t) =>
                    \E k \in 1..(Len(bz_parts) - 1) :
                        /\ bz_parts[k].start = Localize(tz, d * Day + rules[i].start_t)
                        /\ bz_parts[k].end = Localize(tz, (d + 1) * Day)
                        /\ bz_parts[k + 1].start = bz_parts[k].end
                        /\ bz_parts[k + 1].end =
                               Localize(tz, (d + 1) * Day + rules[i].end_t)
                        /\ (bz_parts[k].end - bz_parts[k].start)
                             + (bz_parts[k + 1].end - bz_parts[k + 1].start)
                           = Day - rules[i].start_t + rules[i].end_t

\* C10: the intervals returned for one entity and one window are pairwise
\* non-overlapping.
BizIntervalsPairwiseDisjoint ==
    bz_pc = "range" =>
        \A i \in 1..Len(bz_out) : \A j \in 1..Len(bz_out) :
            i < j => Intersect(bz_out[i], bz_out[j]) = None

---------------------------------------------------------------------------
(* compute_store_metrics on one store of a database *)

MaxObs == 2

\* Reference instants: an early morning in Chicago before DST starts, one
\* two days after it started, and an early morning in Kolkata a week later.
NowInputs ==
    { (SpringDay - 1) * Day + 6 * Hour,
      (SpringDay + 2) * Day + 6 * Hour,
      (SpringDay + 9) * Day - 5 * Hour + Hour \div 2 }

\* Offsets of the subject store's observations before the reference instant.
ObsAges == {Week + Hour, Week, Day, Hour \div 2, 0}

MetricRowLists == UNION {[1..n -> RowInputs] : n \in 0..1}

\* A database holding the subject store "s1" and possibly one observation
\* of another store at the reference instant, the subject's timezone row
\* drawn from tzrows.
MetricInputs(tzrows) ==
    /\ mt_pc = "call"
    /\ mt_store = "s1"
    /\ mt_secs = None
    /\ mt_result = None
    /\ clock \in NowInputs
    /\ \E n \in 0..MaxObs :
         \E ages \in [1..n -> ObsAges], sts \in [1..n -> Statuses],
            other \in {<<>>, <<StatusRow("s2", clock, "active")>>} :
             db_status = [i \in 1..n |-> StatusRow("s1", clock - ages[i], sts[i])]
                             \o other
    /\ \E rows \in MetricRowLists :
           db_hours = [i \in 1..Len(rows) |-> HoursRow("s1", rows[i])]
    /\ \E name \in tzrows :
           db_tz = IF name = "" THEN <<TzRow("s2", "Asia/Kolkata")>>
                   ELSE <<TzRow("s1", name)>>
    /\ iv_Idle /\ tl_Idle /\ bz_Idle /\ rp_Idle

InitMetrics == MetricInputs(TzRows)

\* Stores in a zone whose UTC offset never changes.
InitMetricsFixed == MetricInputs({"Asia/Kolkata"})

\* metrics = compute_store_metrics(sess, sid), for a store whose rows
\* do not make it raise.
DoComputeMetrics ==
    /\ mt_pc = "call"
    /\ ~ComputeRaises(db_hours, db_tz, mt_store)
    /\ mt_secs' = AllWindowSeconds(db_status, db_hours, db_tz, clock, mt_store)
    /\ mt_result' = ComputeStoreMetrics(db_status, db_hours, db_tz, clock, mt_store)
    /\ mt_pc' = "done"
    /\ UNCHANGED <<mt_store, db_vars, not_mt>>

NextMetrics == DoComputeMetrics

SpecMetrics == InitMetrics /\ [][NextMetrics]_vars

SpecMetricsFixed == InitMetricsFixed /\ [][NextMetrics]_vars

mt_Now == GetNow(db_status, clock)
mt_Tz == TimezoneName(TimezoneRowOf(db_tz, mt_store))
mt_Rules == GetBusinessHours(RowsOf(db_hours, mt_store))
mt_Window(key) == WindowRanges(mt_Now)[key]
mt_Keys == {"last_hour", "last_day", "last_week"}

\* The seconds of window w at which the store is open under its rules.
OpenSeconds(tz, rules, w) ==
    Cardinality({t \in w.start..(w.end - 1) : OpenAt(tz, rules, t)}) * SecondsPerTick

\* C3: in each of the three windows uptime and downtime seconds are not
\* negative and together do not exceed the window's duration.
SumsBoundedByWindow ==
    mt_pc = "done" =>
        \A key \in mt_Keys :
            /\ mt_secs[key].up >= 0
            /\ mt_secs[key].down >= 0
            /\ mt_secs[key].up + mt_secs[key].down
                   <= DurationSeconds(mt_Window(key))

\* C6: a store without any observation gets a record; in each window its
\* uptime is 0 and its downtime is the business time inside the window,
\* 60.0 minutes in the last hour when business hours cover that hour.
NoObservationsAllDowntime ==
    (mt_pc = "done" /\ RowsOf(db_status, mt_store) = <<>>) =>
        /\ mt_result # None
        /\ mt_result.store_id = mt_store
        /\ \A key \in mt_Keys :
               /\ mt_secs[key].up = 0
               /\ mt_secs[key].down = OpenSeconds(mt_Tz, mt_Rules, mt_Window(key))
        /\ (\A t \in mt_Window("last_hour").start..(mt_Window("last_hour").end - 1) :
                OpenAt(mt_Tz, mt_Rules, t))
           => /\ mt_result.downtime_last_hour_minutes = 60 * 100
              /\ mt_result.uptime_last_hour_minutes = 0

\* C7: for a store without business-hours rows, in every window the
\* resolved business intervals cover each instant of the window exactly
\* once and uptime + downtime is the window's duration; a store active
\* throughout the last week has 168.0 hours up and 0.0 down.
AlwaysOpenCoversWindowOnce ==
    (mt_pc = "done" /\ RowsOf(db_hours, mt_store) = <<>>) =>
        /\ \A key \in mt_Keys :
               LET w == mt_Window(key)
                   biz == BusinessIntervalsUtcForRange(
                              TimezoneRowOf(db_tz, mt_store), <<>>, w.start, w.end)
               IN  /\ \A t \in w.start..(w.end - 1) :
                          Cardinality({k \in 1..Len(biz) : Covers(biz[k], t)}) = 1
                   /\ mt_secs[key].up + mt_secs[key].down = DurationSeconds(w)
        /\ (\A i \in 1..Len(db_status) :
                db_status[i].store_id = mt_store =>
                    /\ db_status[i].status = "active"
                    /\ \E j \in 1..Len(db_status) :
                           /\ db_status[j].store_id = mt_store
                           /\ db_status[j].timestamp_utc <= mt_Now - Week)
           /\ RowsOf(db_status, mt_store) # <<>>
           => /\ mt_result.uptime_last_week_hours = 168 * 100
              /\ mt_result.downtime_last_week_hours = 0

\* What one computation hands to sum_overlap for window key: the points it
\* fetched once, and the segments and business intervals of that window.
mt_Points ==
    FetchStatusPoints(db_status, mt_store, mt_Window("last_week").start, mt_Now)

mt_Segs(key) ==
    InterpolateSegments(mt_Points, mt_Window(key).start, mt_Window(key).end)

mt_Biz(key) ==
    BusinessIntervalsUtcForRange(TimezoneRowOf(db_tz, mt_store),
                                 RowsOf(db_hours, mt_store),
                                 mt_Window(key).start, mt_Window(key).end)

\* Whether instant t is inside business hours while window key is computed.
mt_InBiz(key, t) == \E k \in 1..Len(mt_Biz(key)) : Covers(mt_Biz(key)[k], t)

\* The pairs (inner window, outer window).
mt_Nesting ==
    {<<"last_hour", "last_day">>, <<"last_day", "last_week">>,
     <<"last_hour", "last_week">>}

\* The three windows end at the same now and each lies inside the next.
WindowsNested ==
    \A p \in mt_Nesting :
        /\ mt_Window(p[1]).end = mt_Now
        /\ mt_Window(p[2]).end = mt_Now
        /\ mt_Window(p[2]).start <= mt_Window(p[1]).start
        /\ mt_Window(p[1]).start < mt_Window(p[1]).end

\* Uptime and downtime seconds do not shrink from a window to the next.
SumsMonotone ==
    \A p \in mt_Nesting :
        /\ mt_secs[p[1]].up <= mt_secs[p[2]].up
        /\ mt_secs[p[1]].down <= mt_secs[p[2]].down

\* The state assigned to an instant is the same in every window holding it.
StateSameInEveryWindow ==
    \A p \in mt_Nesting :
        \A t \in mt_Window(p[1]).start..(mt_Window(p[1]).end - 1) :
            StateAt(mt_Segs(p[1]), t) = StateAt(mt_Segs(p[2]), t)

\* An instant is inside business hours in every window holding it or in
\* none.
OpenSameInEveryWindow ==
    \A p \in mt_Nesting :
        \A t \in mt_Window(p[1]).start..(mt_Window(p[1]).end - 1) :
            mt_InBiz(p[1], t) <=> mt_InBiz(p[2], t)

\* C11: the three windows of one computation share the end now and are
\* nested; uptime seconds and downtime seconds of last_hour, last_day and
\* last_week are non-decreasing in that order; the state assigned to an
\* instant and its being inside business hours are the same in whichever
\* of the three windows it is computed.
WindowsNestedResultsMonotone ==
    mt_pc = "done" =>
        /\ WindowsNested
        /\ SumsMonotone
        /\ StateSameInEveryWindow
        /\ OpenSameInEveryWindow

---------------------------------------------------------------------------
(* main: the report endpoints and run_report *)

MaxReports == 2

\* Report ids; MaxReports + 1 is an id no trigger_report ever made.
ReportIds == 1..MaxReports

\* The store ids that may occur, in the order sorted(..., key=str) gives.
AllStores == <<"s1", "s2">>

\* run_report: the distinct store ids of the three tables.
StoreIds(status, hours, tzs) ==
    {status[i].store_id : i \in 1..Len(status)}
        \cup {hours[i].store_id : i \in 1..Len(hours)}
        \cup {tzs[i].store_id : i \in 1..Len(tzs)}

SortedStoreIds(status, hours, tzs) ==
    SelectSeq(AllStores, LAMBDA sid : sid \in StoreIds(status, hours, tzs))

\* str(e) of what compute_store_metrics raises for the store: the timezone
\* is resolved before the business hours are parsed.
ErrorOf(hours, tzs, sid) ==
    IF ~ZoneKnown(TimezoneName(TimezoneRowOf(tzs, sid)))
    THEN "Error: UnknownTimeZoneError"
    ELSE "Error: ValueError"

\* dt.datetime.now(dt.timezone.utc): an aware datetime, never None.
UtcNow(wall) == [utc |-> wall]

Report(status, finished_at, path) ==
    [status |-> status, finished_at |-> finished_at, path |-> path]

\* The CSV file DictWriter leaves behind: one row per collected record.
CsvFile(rows) == [rows |-> rows]

\* os.path.join(REPORT_DIR, f"{report_id}.csv")
OutPath(rid) == [csv |-> rid]

\* Per-store rows of a small database: each store has no timezone row, a
\* known zone or an unknown one, and no business hours, a rule crossing
\* midnight or a row whose time cannot be parsed.
ReportTzRows == {"", "Asia/Kolkata", "Mars/Phobos"}

ReportHours ==
    { <<>>,
      <<Row(0, <<22, 0, 0>>, <<2, 0, 0>>)>>,
      <<Row(0, <<9, 0, 0>>, <<24, 0, 0>>)>> }

Init ==
    /\ clock \in {(SpringDay + 2) * Day + 6 * Hour}
    /\ \E obs \in {<<>>, <<StatusRow("s1", clock - Hour \div 2, "active")>>} :
           db_status = obs \o <<StatusRow("s2", clock, "inactive")>>
    /\ \E h1 \in ReportHours, h2 \in ReportHours :
           db_hours = [i \in 1..Len(h1) |-> HoursRow("s1", h1[i])]
                          \o [i \in 1..Len(h2) |-> HoursRow("s2", h2[i])]
    /\ \E t1 \in ReportTzRows, t2 \in ReportTzRows :
           db_tz = (IF t1 = "" THEN <<>> ELSE <<TzRow("s1", t1)>>)
                       \o (IF t2 = "" THEN <<>> ELSE <<TzRow("s2", t2)>>)
    /\ reports = [r \in ReportIds |-> None]
    /\ files = [r \in ReportIds |-> None]
    /\ rq_pc = [r \in ReportIds |-> "start"]
    /\ rq_idx = [r \in ReportIds |-> 1]
    /\ rq_rows = [r \in ReportIds |-> <<>>]
    /\ resp = None
    /\ iv_Idle /\ tl_Idle /\ bz_Idle /\ mt_Idle

\* trigger_report, first transaction: the report is stored as Running.
TriggerInsert(r) ==
    /\ rq_pc[r] = "start"
    /\ reports' = [reports EXCEPT ![r] = Report("Running", None, None)]
    /\ rq_pc' = [rq_pc EXCEPT ![r] = "run"]
    /\ UNCHANGED <<files, rq_idx, rq_rows, resp, db_vars, not_rp>>

\* run_report, one iteration of the loop over the sorted store ids:
\* compute_store_metrics either appends the store's record or raises, and
\* nothing in run_report catches what it raises.
RunStore(r) ==
    /\ rq_pc[r] = "run"
    /\ rq_idx[r] <= Len(SortedStoreIds(db_status, db_hours, db_tz))
    /\ LET sid == SortedStoreIds(db_status, db_hours, db_tz)[rq_idx[r]]
       IN  IF ComputeRaises(db_hours, db_tz, sid)
           THEN /\ rq_pc' = [rq_pc EXCEPT ![r] = "raised"]
                /\ UNCHANGED <<rq_idx, rq_rows>>
           ELSE /\ rq_rows' = [rq_rows EXCEPT ![r] =
                       Append(@, ComputeStoreMetrics(db_status, db_hours, db_tz,
                                                     clock, sid))]
                /\ rq_idx' = [rq_idx EXCEPT ![r] = @ + 1]
                /\ UNCHANGED rq_pc
    /\ UNCHANGED <<reports, files, resp, db_vars, not_rp>>

\* run_report, after the loop: the CSV is written and its path returned.
WriteCsv(r) ==
    /\ rq_pc[r] = "run"
    /\ rq_idx[r] > Len(SortedStoreIds(db_status, db_hours, db_tz))
    /\ files' = [files EXCEPT ![r] = CsvFile(rq_rows[r])]
    /\ rq_pc' = [rq_pc EXCEPT ![r] = "written"]
    /\ UNCHANGED <<reports, rq_idx, rq_rows, resp, db_vars, not_rp>>

\* A slip in the order of trigger_report: the report is marked Complete
\* while run_report has not written its file yet.
MarkCompleteEarly(r) ==
    /\ rq_pc[r] \in {"run", "written"}
    /\ reports' = [reports EXCEPT ![r] = Report("Complete", UtcNow(clock), OutPath(r))]
    /\ rq_pc' = [rq_pc EXCEPT ![r] = "returned"]
    /\ UNCHANGED <<files, rq_idx, rq_rows, resp, db_vars, not_rp>>

\* trigger_report, the try branch after run_report returned.
MarkComplete(r) ==
    /\ rq_pc[r] = "written"
    /\ reports' = [reports EXCEPT ![r] = Report("Complete", UtcNow(clock), OutPath(r))]
    /\ rq_pc' = [rq_pc EXCEPT ![r] = "returned"]
    /\ UNCHANGED <<files, rq_idx, rq_rows, resp, db_vars, not_rp>>

\* trigger_report, the except branch: the status becomes "Error: ..." and
\* the exception is raised again.
MarkError(r) ==
    /\ rq_pc[r] = "raised"
    /\ reports' = [reports EXCEPT ![r] =
           Report(ErrorOf(db_hours, db_tz,
                          SortedStoreIds(db_status, db_hours, db_tz)[rq_idx[r]]),
                  @.finished_at, @.path)]
    /\ rq_pc' = [rq_pc EXCEPT ![r] = "failed"]
    /\ UNCHANGED <<files, rq_idx, rq_rows, resp, db_vars, not_rp>>

\* The row of the reports table with this id, None without one.
FindReport(id) == IF id \in ReportIds THEN reports[id] ELSE None

\* get_report: an HTTPException carries its detail, a ReportStatusResp its
\* status and, for a Complete report, the path.
GetReport(id) ==
    /\ LET r == FindReport(id)
       IN  resp' =
             IF r = None
             THEN [op |-> "get_report", id |-> id, code |-> 404,
                   detail |-> "report_id not found", report_path |-> None]
             ELSE IF r.status # "Complete"
             THEN [op |-> "get_report", id |-> id, code |-> 200,
                   status |-> r.status, report_path |-> None]
             ELSE [op |-> "get_report", id |-> id, code |-> 200,
                   status |-> "Complete", report_path |-> r.path]
    /\ UNCHANGED <<reports, files, rq_pc, rq_idx, rq_rows, db_vars, not_rp>>

\* os.path.exists(path)
PathExists(path) == path # None /\ files[path.csv] # None

\* download_report: an HTTPException, or a FileResponse of the file at the
\* report's path.
DownloadReport(id) ==
    /\ LET r == FindReport(id)
       IN  resp' =
             IF r = None \/ r.status # "Complete" \/ r.path = None
                    \/ ~PathExists(r.path)
             THEN [op |-> "download_report", id |-> id, code |-> 404,
                   detail |-> "report not ready", report_path |-> None]
             ELSE [op |-> "download_report", id |-> id, code |-> 200,
                   media_type |-> "text/csv", report_path |-> r.path]
    /\ UNCHANGED <<reports, files, rq_pc, rq_idx, rq_rows, db_vars, not_rp>>

Next ==
    \/ \E r \in ReportIds : TriggerInsert(r)
    \/ \E r \in ReportIds : RunStore(r)
    \/ \E r \in ReportIds : WriteCsv(r)
    \/ \E r \in ReportIds : MarkComplete(r)
    \/ \E r \in ReportIds : MarkError(r)
    \/ \E id \in 1..(MaxReports + 1) : GetReport(id)
    \/ \E id \in 1..(MaxReports + 1) : DownloadReport(id)

Spec == Init /\ [][Next]_vars

\* C5: a failure while computing one store does not abort the batch run:
\* once trigger_report has ended, the report is Complete and its file
\* holds the record of every store whose own computation does not fail.
BatchSurvivesStoreFailure ==
    \A r \in ReportIds :
        rq_pc[r] \in {"returned", "failed"} =>
            /\ reports[r].status = "Complete"
            /\ files[r] # None
            /\ \A sid \in StoreIds(db_status, db_hours, db_tz) :
                   ~ComputeRaises(db_hours, db_tz, sid) =>
                       \E i \in 1..Len(files[r].rows) :
                           files[r].rows[i].store_id = sid

---------------------------------------------------------------------------
(* The report job lifecycle *)

\* The databases in which only store s1 may have business-hours rows.
\* trigger_report is one sequential handler: once run_report has raised,
\* its except branch is taken.  Requests themselves (trigger, get,
\* download) may or may not arrive.
InitLifecycle == Init /\ RowsOf(db_hours, "s2") = <<>>

SpecLifecycle ==
    /\ InitLifecycle
    /\ [][Next]_vars
    /\ \A r \in ReportIds : WF_vars(MarkError(r))

\* f"Error: {e}" for the exceptions compute_store_metrics raises.
ErrorStatuses == {"Error: UnknownTimeZoneError", "Error: ValueError"}

\* The status of report r is one of the set S.
StatusIn(r, S) == reports[r] # None /\ reports[r].status \in S

\* run_report has written the whole CSV of report r: one record per store
\* id, in sorted order.
WholeCsvWritten(r) ==
    /\ files[r] # None
    /\ Len(files[r].rows) = Len(SortedStoreIds(db_status, db_hours, db_tz))
    /\ \A i \in 1..Len(files[r].rows) :
           files[r].rows[i].store_id
               = SortedStoreIds(db_status, db_hours, db_tz)[i]

\* What holds of the reports table and of the last answer in every state.
LifecycleState ==
    /\ \A r \in ReportIds :
           \* stored before the computation starts
           /\ (rq_pc[r] # "start" \/ rq_idx[r] # 1 \/ rq_rows[r] # <<>>
                   \/ files[r] # None)
                  => reports[r] # None
           \* Running while run_report is at work
           /\ rq_pc[r] \in {"run", "raised", "written"}
                  => StatusIn(r, {"Running"})
           \* Complete: the whole CSV is there, path and finished_at are set
           /\ StatusIn(r, {"Complete"})
                  => /\ WholeCsvWritten(r)
                     /\ reports[r].path = OutPath(r)
                     /\ reports[r].finished_at # None
           \* run_report raised and trigger_report has ended
           /\ rq_pc[r] = "failed" => StatusIn(r, ErrorStatuses)
    /\ resp # None =>
           \* 404 for an unknown report_id
           /\ FindReport(resp.id) = None
                  => resp.code = 404 /\ resp.report_path = None
           \* a path is returned, a file served, only for a Complete report
           /\ (resp.report_path # None
                   \/ (resp.op = "download_report" /\ resp.code = 200))
                  => /\ FindReport(resp.id) # None
                     /\ reports[resp.id].status = "Complete"
                     /\ resp.report_path = reports[resp.id].path
                     /\ PathExists(resp.report_path)

\* What holds of every step.
LifecycleStep ==
    \A r \in ReportIds :
        \* a report enters the table as Running, its computation not begun
        /\ (reports[r] = None /\ reports'[r] # None)
               => /\ reports'[r] = Report("Running", None, None)
                  /\ rq_idx[r] = 1 /\ rq_rows[r] = <<>> /\ files[r] = None
        \* it becomes Complete only from Running, the whole CSV written
        /\ (reports'[r] # None /\ reports'[r].status = "Complete"
                /\ reports'[r] # reports[r])
               => /\ StatusIn(r, {"Running"})
                  /\ rq_pc[r] = "written"
                  /\ WholeCsvWritten(r)
        \* after run_report raised it never becomes Complete
        /\ (rq_pc[r] \in {"raised", "failed"}
                \/ StatusIn(r, ErrorStatuses))
               => reports'[r].status # "Complete"

\* C12: under any interleaving of trigger_report, get_report and
\* download_report requests, a report is stored as "Running" before its
\* computation starts; it becomes "Complete" only after run_report has
\* written the whole CSV and then has path and finished_at set; if
\* run_report raises, its status becomes "Error: ..." and never becomes
\* Complete; get_report returns a report_path and download_report serves a
\* file only for a Complete report, and both answer 404 for an unknown
\* report_id.
ReportJobLifecycle ==
    /\ []LifecycleState
    /\ [][LifecycleStep]_vars
    /\ \A r \in ReportIds :
           (rq_pc[r] = "raised") ~> StatusIn(r, ErrorStatuses)

\* One report is Complete and its file has just been served while another
\* request's run_report is halfway through the stores.
CompleteServedWhileOtherRuns ==
    \E r \in ReportIds, q \in ReportIds :
        /\ r # q
        /\ StatusIn(r, {"Complete"})
        /\ rq_pc[q] = "run" /\ rq_idx[q] > 1
        /\ resp # None
        /\ resp.op = "download_report" /\ resp.id = r /\ resp.code = 200

====
